---- MODULE Spec2Model ----
(***************************************************************************)
(* The 3D printing farm of 3D_printing_Farm_for_codingtest.py: a SimPy     *)
(* discrete-event simulation.  The model keeps the environment's event     *)
(* queue (ordered by time, priority and insertion), the users and the put  *)
(* queue of every simpy.Resource, the level of the two simpy.Containers    *)
(* and, for every customer, the stack of generator frames that the         *)
(* `yield env.process(...)` calls have nested.  One action is one          *)
(* env.step(): the head event is popped, the clock moves to its time and   *)
(* the process it resumes runs to its next yield.                          *)
(***************************************************************************)
EXTENDS Naturals, Integers, Sequences, FiniteSets, TLC

\* ------------------------------------------------------------------ bounds
\* number of customers the generator creates (the run of line 523 uses 20)
TOTAL_CUSTOMERS == 7

\* ------------------------------------------------------- program constants
\* clock ticks per simulated time unit: the refill delay is
\* refill_amount * 0.1, so one tick is 0.1 time unit
Tick == 10
customer_wait_limit == 500
ContainerCapacity == 1000
\* (mutant) the container is created with more than its capacity
ContainerInit_over == ContainerCapacity + 20
ContainerInit == 20

\* ------------------------------------------- the random variates (in ticks)
\* np.random.exponential(INTERVAL): any delay >= 0
Intervals == {1 * Tick}
\* np.random.triangular(3, 6, 9)
ServiceTimes == {9 * Tick}
\* np.random.triangular(4, 10, 15)
BlueprintTimes == {15 * Tick}
\* np.random.triangular(8, m, 20), m = 10, 14, 10, 15
PrintTimes == {20 * Tick}
\* np.random.uniform(1, 3)
InspectionTimes == {3 * Tick}
\* np.random.triangular(2, 3, 5)
PackTimes == {5 * Tick}
\* np.random.triangular(1, 2, 3): grams of plastic or ml of resin
NeededAmounts == {3}

Gen == 0 - 1
Customers == 0 .. (TOTAL_CUSTOMERS - 1)
Resources == {"reception", "blueprint", "fdm1", "fdm2", "sla1", "sla2", "qc", "packaging"}
Printers == {"fdm1", "fdm2", "sla1", "sla2"}
Containers == {"plastic", "resin"}

\* (mutant) the reception desk has two slots
Capacity_twodesks(r) ==
  IF r \in {"reception", "blueprint", "qc", "packaging"} THEN 2 ELSE 1

\* capacity= of each simpy.Resource
Capacity(r) == IF r \in {"blueprint", "qc", "packaging"} THEN 2 ELSE 1

\* the unit k (1 or 2) of a printer type (0 FDM, 1 SLA)
Unit(ptype, k) ==
  IF ptype = 0 THEN (IF k = 1 THEN "fdm1" ELSE "fdm2")
               ELSE (IF k = 1 THEN "sla1" ELSE "sla2")

\* (mutant) every printer draws plastic
Material_plasticonly(ptype) == "plastic"

\* the container a printer type draws from
Material(ptype) == IF ptype = 0 THEN "plastic" ELSE "resin"

VARIABLES
  now,            \* env.now, in ticks
  queue,          \* the environment's event queue, in dispatch order
  gen,            \* generate_customer: the loop index i
  stack,          \* per customer: the nested generator frames, innermost last
  res,            \* per resource: len(users) and put_queue
  cont,           \* per container: level, get_queue, put_queue
  status,         \* per customer: the job's state of spec 4.6
  requested,      \* reception requests in the order they were made
  granted         \* reception requests in the order they were granted

vars == <<now, queue, gen, stack, res, cont, status, requested, granted>>

\* ------------------------------------------------------------- event queue
Ev(t, kind, c, d, k, r) ==
  [time |-> t, kind |-> kind, c |-> c, d |-> d, k |-> k, r |-> r]

\* the Initialize event of env.process() is scheduled with priority URGENT,
\* every other event (timeout, request, release, condition, process end)
\* with priority NORMAL
Urgent(e) == e.kind = "init"

\* (mutant) a new event goes ahead of the events of the same time
StaysAhead_newfirst(e, f) == e.time < f.time

\* an event already in the queue stays ahead of a new one that is not
\* strictly earlier: heap order (time, priority, eid)
StaysAhead(e, f) ==
  e.time < f.time \/ (e.time = f.time /\ (Urgent(e) \/ ~Urgent(f)))

\* (mutant) a plain list: the new event goes to the end whatever its time
Schedule_unsorted(q, ev) == Append(q, ev)

\* Environment.schedule(): heappush of (time, priority, eid, event)
Schedule(q, ev) ==
  LET n == Cardinality({i \in 1 .. Len(q) : StaysAhead(q[i], ev)})
  IN  SubSeq(q, 1, n) \o <<ev>> \o SubSeq(q, n + 1, Len(q))

\* ------------------------------------------------------------------ frames
Frame(fn, pc) ==
  [fn |-> fn, pc |-> pc, hb |-> 0, arr |-> 0, ptype |-> 0, sel |-> 0,
   h1 |-> FALSE, h2 |-> FALSE, p1 |-> FALSE, p2 |-> FALSE, cond |-> "none",
   amt |-> 0, dur |-> 0, lvl0 |-> 0, refilled |-> FALSE]

Depth(c) == Len(stack[c])
Top(c) == stack[c][Len(stack[c])]
TopOf(st, c) == st[c][Len(st[c])]
SetTop(st, c, f) == [st EXCEPT ![c] = [@ EXCEPT ![Len(@)] = f]]
Push(st, c, f) == [st EXCEPT ![c] = Append(@, f)]
Pop(st, c) == [st EXCEPT ![c] = SubSeq(@, 1, Len(@) - 1)]

\* the sequence s without the entry id
RemoveFrom(s, id) ==
  LET keep == {i \in 1 .. Len(s) : s[i] # id}
      F[n \in 0 .. Len(s)] ==
        IF n = 0 THEN <<>>
        ELSE IF n \in keep THEN Append(F[n - 1], s[n]) ELSE F[n - 1]
  IN  F[Len(s)]

\* ---------------------------------------------------------- simpy.Resource
\* A request is <<customer, depth of the requesting frame, k>>; the frame's
\* field h1 (k = 1) or h2 (k = 2) tells whether the request is among the
\* resource's users, which is what Request.triggered tells until a release.
Held(st, id) == IF id[3] = 1 THEN st[id[1]][id[2]].h1 ELSE st[id[1]][id[2]].h2

SetHeld(st, id, v) ==
  IF id[3] = 1 THEN [st EXCEPT ![id[1]][id[2]].h1 = v]
               ELSE [st EXCEPT ![id[1]][id[2]].h2 = v]

\* (mutant) off by one: a request is granted while inUse <= capacity
CanGrant_offbyone(rs, r) == rs[r].inUse <= Capacity(r)

\* Resource._do_put: a request is granted when a slot is free
CanGrant(rs, r) == rs[r].inUse < Capacity(r)

\* (mutant) the newest request is served first
NextInLine_last(pq) == pq[Len(pq)]

\* the request of the put queue that _trigger_put examines: the head
NextInLine(pq) == Head(pq)

\* BaseResource._trigger_put with Resource._do_put: the head of the put queue
\* becomes a user, and its request event is scheduled, if a slot is free
TriggerPut(rs, q, st, r, t) ==
  IF rs[r].queue # <<>> /\ CanGrant(rs, r)
  THEN LET id == NextInLine(rs[r].queue)
       IN  [res |-> [rs EXCEPT ![r] = [inUse |-> @.inUse + 1,
                                      queue |-> RemoveFrom(@.queue, id)]],
            q   |-> Schedule(q, Ev(t, "request", id[1], id[2], id[3], r)),
            st  |-> SetHeld(st, id, TRUE),
            who |-> <<id[1]>>]
  ELSE [res |-> rs, q |-> q, st |-> st, who |-> <<>>]

\* Resource.request(): Put.__init__ appends to the put queue and triggers it
Request(rs, q, st, r, id, t) ==
  TriggerPut([rs EXCEPT ![r].queue = Append(@, id)], q, st, r, t)

\* Resource.release(req): Resource._do_get removes the request from the users
\* at once (if it is one) and the Release event is scheduled; its callback
\* triggers the put queue when it is dispatched
Release(rs, q, st, r, id, t) ==
  [res |-> IF Held(st, id) THEN [rs EXCEPT ![r].inUse = @ - 1] ELSE rs,
   q   |-> Schedule(q, Ev(t, "release", Gen, 0, 0, r)),
   st  |-> SetHeld(st, id, FALSE)]

\* Put.cancel(): removes the request from the put queue unless it has been
\* triggered (a granted request is left among the users)
Cancel(rs, st, r, id) ==
  IF Held(st, id) THEN rs ELSE [rs EXCEPT ![r].queue = RemoveFrom(@, id)]

\* -------------------------------------------------------------------- Init
Init ==
  /\ now = 0
  /\ queue = <<Ev(0, "init", Gen, 0, 0, "none")>>
  /\ gen = 0
  /\ stack = [c \in Customers |-> <<>>]
  /\ res = [r \in Resources |-> [inUse |-> 0, queue |-> <<>>]]
  /\ cont = [m \in Containers |->
               [level |-> ContainerInit, getq |-> <<>>, putq |-> <<>>]]
  /\ status = [c \in Customers |-> "none"]
  /\ requested = <<>>
  /\ granted = <<>>

\* ------------------------------------------------------- scheduler: step()
head == Head(queue)

\* the head event resumes the innermost frame of its customer, which is the
\* generator function fn waiting at pc
Resumes(kind, fn, pc) ==
  /\ queue # <<>>
  /\ head.kind = kind
  /\ head.c \in Customers
  /\ Depth(head.c) >= 1
  /\ head.d = (IF kind = "done" THEN Depth(head.c) + 1 ELSE Depth(head.c))
  /\ Top(head.c).fn = fn
  /\ Top(head.c).pc = pc

\* env.process(child): the child's Initialize event is URGENT
InitEv(t, c, d) == Ev(t, "init", c, d, 0, "none")
TimeoutEv(t, c, d) == Ev(t, "timeout", c, d, 0, "none")
\* a generator returns: its Process event is scheduled for whoever yields it
DoneEv(t, c, d) == Ev(t, "done", c, d, 0, "none")

\* ------------------------------------------------------- generate_customer
\* (mutant) off by one: the loop runs once more, range(TOTAL_CUSTOMERS + 1)
GenerateCustomer_onemore ==
  /\ queue # <<>> /\ head.c = Gen /\ head.kind \in {"init", "timeout"}
  /\ gen <= TOTAL_CUSTOMERS
  /\ \E hb \in {0, 1}, gap \in Intervals :
       /\ stack' = [c \in Customers |->
                      IF c = gen THEN <<[Frame("recept", "start") EXCEPT !.hb = hb]>>
                      ELSE stack[c]]
       /\ queue' = Schedule(Schedule(Tail(queue), InitEv(head.time, gen, 1)),
                            TimeoutEv(head.time + gap, Gen, 0))
  /\ now' = head.time
  /\ gen' = gen + 1
  /\ UNCHANGED <<res, cont, status, requested, granted>>

\* lines 19-23: one loop iteration
GenerateCustomer ==
  /\ queue # <<>> /\ head.c = Gen /\ head.kind \in {"init", "timeout"}
  /\ gen < TOTAL_CUSTOMERS
  /\ \E hb \in {0, 1}, gap \in Intervals :
       /\ stack' = [stack EXCEPT ![gen] =
                      <<[Frame("recept", "start") EXCEPT !.hb = hb]>>]
       /\ queue' = Schedule(Schedule(Tail(queue), InitEv(head.time, gen, 1)),
                            TimeoutEv(head.time + gap, Gen, 0))
  /\ now' = head.time
  /\ gen' = gen + 1
  /\ UNCHANGED <<res, cont, status, requested, granted>>

\* line 19: the loop is exhausted and the generator returns
GeneratorEnd ==
  /\ queue # <<>> /\ head.c = Gen /\ head.kind \in {"init", "timeout"}
  /\ gen = TOTAL_CUSTOMERS
  /\ now' = head.time
  /\ queue' = Schedule(Tail(queue), DoneEv(head.time, Gen, 0))
  /\ UNCHANGED <<gen, stack, res, cont, status,
                 requested, granted>>

\* the Process event of a process nobody yields (the generator, or a
\* customer's recept_customer) is dispatched: it has no callbacks
ProcessEnd ==
  /\ queue # <<>> /\ head.kind = "done"
  /\ head.c = Gen \/ head.d = 1
  /\ now' = head.time
  /\ queue' = Tail(queue)
  /\ UNCHANGED <<gen, stack, res, cont, status,
                 requested, granted>>

\* the Release event of Resource.release is dispatched: its callback
\* _trigger_put grants the head of the put queue
ReleaseProcessed ==
  /\ queue # <<>> /\ head.kind = "release"
  /\ LET g == TriggerPut(res, Tail(queue), stack, head.r, head.time)
     IN  /\ res' = g.res
         /\ queue' = g.q
         /\ stack' = g.st
         /\ granted' = IF head.r = "reception" THEN granted \o g.who ELSE granted
  /\ now' = head.time
  /\ UNCHANGED <<gen, cont, status, requested>>

\* ---------------------------------------------------------- recept_customer
\* (mutant) the wait is never found too long
Overstayed_never(wait) == wait < 0

\* line 59: customer_wait_time > customer_wait_limit
Overstayed(wait) == wait > customer_wait_limit * Tick

\* lines 52-56: arrival and the request of the reception desk
ReceptArrive ==
  /\ Resumes("init", "recept", "start")
  /\ LET c == head.c
         g == Request(res, Tail(queue), stack, "reception", <<c, 1, 1>>, head.time)
     IN  /\ res' = g.res
         /\ queue' = g.q
         /\ stack' = SetTop(g.st, c, [TopOf(g.st, c) EXCEPT !.pc = "wait_desk",
                                                             !.arr = head.time])
         /\ status' = [status EXCEPT ![c] = "queued"]
         /\ requested' = Append(requested, c)
         /\ granted' = granted \o g.who
  /\ now' = head.time
  /\ UNCHANGED <<gen, cont>>

\* lines 57-60: the wait exceeds the limit, the customer leaves; the with
\* block releases the desk and the generator returns
ReceptLeave ==
  /\ Resumes("request", "recept", "wait_desk")
  /\ Overstayed(head.time - Top(head.c).arr)
  /\ LET c == head.c
         g == Release(res, Tail(queue), stack, "reception", <<c, 1, 1>>, head.time)
     IN  /\ res' = g.res
         /\ queue' = Schedule(g.q, DoneEv(head.time, c, 1))
         /\ stack' = Pop(g.st, c)
         /\ status' = [status EXCEPT ![c] = "abandoned"]
  /\ now' = head.time
  /\ UNCHANGED <<gen, cont, requested, granted>>

\* lines 61-65: the customer is served
ReceptServe ==
  /\ Resumes("request", "recept", "wait_desk")
  /\ ~Overstayed(head.time - Top(head.c).arr)
  /\ LET c == head.c
     IN  /\ \E st \in ServiceTimes :
               queue' = Schedule(Tail(queue), TimeoutEv(head.time + st, c, 1))
         /\ stack' = SetTop(stack, c, [Top(c) EXCEPT !.pc = "service"])
         /\ status' = [status EXCEPT ![c] = "served"]
  /\ now' = head.time
  /\ UNCHANGED <<gen, res, cont, requested, granted>>

\* (mutant) the desk is released when the service ends, before the child
\* process is started
ReceptServed_releasedesk ==
  /\ Resumes("timeout", "recept", "service")
  /\ LET c == head.c
         g == Release(res, Tail(queue), stack, "reception", <<c, 1, 1>>, head.time)
         st1 == SetTop(g.st, c, [TopOf(g.st, c) EXCEPT !.pc = "wait_child"])
     IN  /\ res' = g.res
         /\ IF Top(c).hb = 0
            THEN stack' = Push(st1, c, Frame("blueprint", "start"))
            ELSE \E pt \in {0, 1} :
                   stack' = Push(st1, c, [Frame("printing", "start")
                                            EXCEPT !.ptype = pt])
         /\ queue' = Schedule(g.q, InitEv(head.time, c, 2))
  /\ now' = head.time
  /\ UNCHANGED <<gen, cont, status, requested, granted>>

\* (mutant) the design step is skipped: printing_process is started whether
\* or not the customer has a blueprint
ReceptServed_nodesign ==
  /\ Resumes("timeout", "recept", "service")
  /\ LET c == head.c
         st1 == SetTop(stack, c, [Top(c) EXCEPT !.pc = "wait_child"])
     IN  /\ \E pt \in {0, 1} :
               stack' = Push(st1, c, [Frame("printing", "start")
                                        EXCEPT !.ptype = pt])
         /\ queue' = Schedule(Tail(queue), InitEv(head.time, c, 2))
  /\ now' = head.time
  /\ UNCHANGED <<gen, res, cont, status, requested,
                 granted>>

\* lines 66-71: after the service, create_blueprint or printing_process
ReceptServed ==
  /\ Resumes("timeout", "recept", "service")
  /\ LET c == head.c
         st1 == SetTop(stack, c, [Top(c) EXCEPT !.pc = "wait_child"])
     IN  /\ IF Top(c).hb = 0
            THEN stack' = Push(st1, c, Frame("blueprint", "start"))
            ELSE \E pt \in {0, 1} :
                   stack' = Push(st1, c, [Frame("printing", "start")
                                            EXCEPT !.ptype = pt])
         /\ queue' = Schedule(Tail(queue), InitEv(head.time, c, 2))
  /\ now' = head.time
  /\ UNCHANGED <<gen, res, cont, status, requested,
                 granted>>

\* (mutant) reneging: when the desk is released, the waiting customers whose
\* wait exceeds the limit are taken out of the queue and leave
ReceptFinish_reneging ==
  /\ Resumes("done", "recept", "wait_child")
  /\ LET c == head.c
         late == {x \in Customers :
                    /\ status[x] = "queued" /\ ~stack[x][1].h1
                    /\ Overstayed(head.time - stack[x][1].arr)}
         Stays(id) == id[1] \notin late
         rs1 == [res EXCEPT !["reception"].queue = SelectSeq(@, Stays)]
         g == Release(rs1, Tail(queue), stack, "reception", <<c, 1, 1>>, head.time)
     IN  /\ res' = g.res
         /\ queue' = Schedule(g.q, DoneEv(head.time, c, 1))
         /\ stack' = [x \in Customers |->
                        IF x \in late THEN <<>> ELSE Pop(g.st, c)[x]]
         /\ status' = [x \in Customers |->
                         IF x = c THEN "done"
                         ELSE IF x \in late THEN "abandoned" ELSE status[x]]
  /\ now' = head.time
  /\ UNCHANGED <<gen, cont, requested, granted>>

\* the child process has returned: the with block of line 55 ends, which
\* releases the desk, and recept_customer returns
ReceptFinish ==
  /\ Resumes("done", "recept", "wait_child")
  /\ LET c == head.c
         g == Release(res, Tail(queue), stack, "reception", <<c, 1, 1>>, head.time)
     IN  /\ res' = g.res
         /\ queue' = Schedule(g.q, DoneEv(head.time, c, 1))
         /\ stack' = Pop(g.st, c)
         /\ status' = [status EXCEPT ![c] = "done"]
  /\ now' = head.time
  /\ UNCHANGED <<gen, cont, requested, granted>>

\* --------------------------------------------------------- create_blueprint
\* lines 89-91: the creation time is drawn, the station is requested
BlueprintStart ==
  /\ Resumes("init", "blueprint", "start")
  /\ LET c == head.c
         g == Request(res, Tail(queue), stack, "blueprint", <<c, Depth(c), 1>>,
                      head.time)
     IN  /\ res' = g.res
         /\ queue' = g.q
         /\ \E pt \in BlueprintTimes :
               stack' = SetTop(g.st, c, [TopOf(g.st, c) EXCEPT !.pc = "wait_station",
                                                               !.dur = pt])
  /\ now' = head.time
  /\ UNCHANGED <<gen, cont, status, requested, granted>>

\* line 92: the station is granted
BlueprintGranted ==
  /\ Resumes("request", "blueprint", "wait_station")
  /\ LET c == head.c
     IN  /\ queue' = Schedule(Tail(queue),
                              TimeoutEv(head.time + Top(c).dur, c, Depth(c)))
         /\ stack' = SetTop(stack, c, [Top(c) EXCEPT !.pc = "work"])
  /\ now' = head.time
  /\ UNCHANGED <<gen, res, cont, status, requested,
                 granted>>

\* lines 93-95: the with block ends (release), then printing_process
BlueprintDone ==
  /\ Resumes("timeout", "blueprint", "work")
  /\ LET c == head.c
         d == Depth(c)
         g == Release(res, Tail(queue), stack, "blueprint", <<c, d, 1>>, head.time)
         st1 == SetTop(g.st, c, [TopOf(g.st, c) EXCEPT !.pc = "wait_child"])
     IN  /\ res' = g.res
         /\ queue' = Schedule(g.q, InitEv(head.time, c, d + 1))
         /\ \E pt \in {0, 1} :
               stack' = Push(st1, c, [Frame("printing", "start")
                                        EXCEPT !.ptype = pt])
  /\ now' = head.time
  /\ UNCHANGED <<gen, cont, status, requested, granted>>

\* a child process has returned to a generator whose last statement was the
\* yield: create_blueprint (line 95), printing_process (line 160)
FrameReturn ==
  /\ \/ Resumes("done", "blueprint", "wait_child")
     \/ Resumes("done", "printing", "wait_inspect")
  /\ queue' = Schedule(Tail(queue), DoneEv(head.time, head.c, Depth(head.c)))
  /\ stack' = Pop(stack, head.c)
  /\ now' = head.time
  /\ UNCHANGED <<gen, res, cont, status, requested,
                 granted>>

\* --------------------------------------------------------- printing_process
\* lines 125-128 and 140-142: both units of the type are requested and the
\* process waits for AnyOf of the two requests
PrintingStart ==
  /\ Resumes("init", "printing", "start")
  /\ LET c == head.c
         d == Depth(c)
         pt == Top(c).ptype
         g1 == Request(res, Tail(queue), stack, Unit(pt, 1), <<c, d, 1>>, head.time)
         g2 == Request(g1.res, g1.q, g1.st, Unit(pt, 2), <<c, d, 2>>, head.time)
     IN  /\ res' = g2.res
         /\ queue' = g2.q
         /\ stack' = SetTop(g2.st, c, [TopOf(g2.st, c) EXCEPT !.pc = "race",
                                                               !.cond = "pending"])
  /\ now' = head.time
  /\ UNCHANGED <<gen, cont, status, requested, granted>>

\* a granted unit request is dispatched: Condition._check counts it and the
\* first one triggers the AnyOf condition; a request dispatched after the
\* condition has been triggered, or after the process has gone on, changes
\* nothing
UnitGranted ==
  /\ queue # <<>> /\ head.kind = "request" /\ head.r \in Printers
  /\ LET c == head.c
         d == head.d
         racing == /\ d <= Depth(c)
                   /\ stack[c][d].fn = "printing"
                   /\ stack[c][d].pc = "race"
     IN  IF racing
         THEN LET f == stack[c][d]
                  f1 == IF head.k = 1 THEN [f EXCEPT !.p1 = TRUE]
                                      ELSE [f EXCEPT !.p2 = TRUE]
              IN  IF f.cond = "pending"
                  THEN /\ stack' = [stack EXCEPT ![c][d] =
                                      [f1 EXCEPT !.cond = "triggered"]]
                       /\ queue' = Schedule(Tail(queue),
                                     Ev(head.time, "cond", c, d, 0, "none"))
                  ELSE /\ stack' = [stack EXCEPT ![c][d] = f1]
                       /\ queue' = Tail(queue)
         ELSE /\ stack' = stack
              /\ queue' = Tail(queue)
  /\ now' = head.time
  /\ UNCHANGED <<gen, res, cont, status, requested,
                 granted>>

\* (mutant) the losing request is not cancelled
CancelLoser_forgotten(rs, st, r, id) == rs

\* Put.cancel() of the losing request of the race
CancelLoser(rs, st, r, id) == Cancel(rs, st, r, id)

\* (mutant) unit 2 is preferred when its request is in the result
Selected_unit2first(f) == IF f.p2 THEN 2 ELSE 1

\* lines 130-136 (144-150): `if req1 in result` selects unit 1, else unit 2
Selected(f) == IF f.p1 THEN 1 ELSE 2

\* lines 130-156: the condition's value holds the requests dispatched so far;
\* unit 1 is selected if its request is among them, unit 2 otherwise; the
\* other request is cancelled and the selected printer's print() is started
RaceResolved ==
  /\ Resumes("cond", "printing", "race")
  /\ LET c == head.c
         d == Depth(c)
         f == Top(c)
         sel == Selected(f)
         st1 == SetTop(stack, c, [f EXCEPT !.pc = "wait_print", !.sel = sel])
     IN  /\ res' = CancelLoser(res, stack, Unit(f.ptype, 3 - sel), <<c, d, 3 - sel>>)
         /\ stack' = Push(st1, c, [Frame("print", "start")
                                     EXCEPT !.ptype = f.ptype, !.sel = sel])
         /\ queue' = Schedule(Tail(queue), InitEv(head.time, c, d + 1))
  /\ now' = head.time
  /\ UNCHANGED <<gen, cont, status, requested, granted>>

\* (mutant) the selected unit is not released before the inspection
PrintingRelease_forgotten ==
  /\ Resumes("done", "printing", "wait_print")
  /\ LET c == head.c
         d == Depth(c)
         f == Top(c)
         st1 == SetTop(stack, c, [f EXCEPT !.pc = "wait_inspect"])
     IN  /\ queue' = Schedule(Tail(queue), InitEv(head.time, c, d + 1))
         /\ stack' = Push(st1, c, [Frame("inspect", "start")
                                     EXCEPT !.ptype = f.ptype])
  /\ now' = head.time
  /\ UNCHANGED <<gen, res, cont, status, requested, granted>>

\* lines 156-160: print() has returned; the selected unit is released and
\* the inspection is started
PrintingRelease ==
  /\ Resumes("done", "printing", "wait_print")
  /\ LET c == head.c
         d == Depth(c)
         f == Top(c)
         g == Release(res, Tail(queue), stack, Unit(f.ptype, f.sel),
                      <<c, d, f.sel>>, head.time)
         st1 == SetTop(g.st, c, [TopOf(g.st, c) EXCEPT !.pc = "wait_inspect"])
     IN  /\ res' = g.res
         /\ queue' = Schedule(g.q, InitEv(head.time, c, d + 1))
         /\ stack' = Push(st1, c, [Frame("inspect", "start")
                                     EXCEPT !.ptype = f.ptype])
  /\ now' = head.time
  /\ UNCHANGED <<gen, cont, status, requested, granted>>

\* ------------------------------------------------------------ Printer.print
\* lines 202-205 (and 240-243, 278-281, 310-313): the amount and the print
\* time are drawn, then get_plastic or get_resin is started
PrintStart ==
  /\ Resumes("init", "print", "start")
  /\ LET c == head.c
         d == Depth(c)
         f == Top(c)
     IN  /\ \E amt \in NeededAmounts, pt \in PrintTimes :
               stack' = Push(SetTop(stack, c, [f EXCEPT !.pc = "wait_get",
                                                        !.amt = amt, !.dur = pt]),
                             c, [Frame("get", "start")
                                   EXCEPT !.ptype = f.ptype, !.amt = amt])
         /\ queue' = Schedule(Tail(queue), InitEv(head.time, c, d + 1))
  /\ now' = head.time
  /\ UNCHANGED <<gen, res, cont, status, requested,
                 granted>>

\* line 206: the material has been obtained, the timed print starts
PrintAfterGet ==
  /\ Resumes("done", "print", "wait_get")
  /\ LET c == head.c
     IN  /\ queue' = Schedule(Tail(queue),
                              TimeoutEv(head.time + Top(c).dur, c, Depth(c)))
         /\ stack' = SetTop(stack, c, [Top(c) EXCEPT !.pc = "printing"])
  /\ now' = head.time
  /\ UNCHANGED <<gen, res, cont, status, requested,
                 granted>>

\* line 207: the print is finished, print() returns
PrintFinished ==
  /\ Resumes("timeout", "print", "printing")
  /\ queue' = Schedule(Tail(queue), DoneEv(head.time, head.c, Depth(head.c)))
  /\ stack' = Pop(stack, head.c)
  /\ now' = head.time
  /\ UNCHANGED <<gen, res, cont, status, requested,
                 granted>>

\* --------------------------------------------------------- simpy.Container
RECURSIVE TriggerGet(_, _, _, _)
\* BaseResource._trigger_get with Container._do_get: withdrawals are granted
\* head first, each in full, until the head cannot be satisfied
TriggerGet(ct, q, m, t) ==
  IF ct[m].getq # <<>> /\ ct[m].level >= Head(ct[m].getq).amt
  THEN LET h == Head(ct[m].getq)
       IN  TriggerGet([ct EXCEPT ![m].level = @ - h.amt, ![m].getq = Tail(@)],
                      Schedule(q, Ev(t, "cget", h.c, h.d, 0, m)), m, t)
  ELSE [cont |-> ct, q |-> q]

RECURSIVE TriggerDeposit(_, _, _, _)
\* BaseResource._trigger_put with Container._do_put: a deposit is granted
\* when the free space holds it
TriggerDeposit(ct, q, m, t) ==
  IF ct[m].putq # <<>> /\ ContainerCapacity - ct[m].level >= Head(ct[m].putq).amt
  THEN LET h == Head(ct[m].putq)
       IN  TriggerDeposit([ct EXCEPT ![m].level = @ + h.amt, ![m].putq = Tail(@)],
                          Schedule(q, Ev(t, "cput", h.c, h.d, 0, m)), m, t)
  ELSE [cont |-> ct, q |-> q]

\* Container.get(amount)
ContainerGet(ct, q, m, c, d, amt, t) ==
  TriggerGet([ct EXCEPT ![m].getq = Append(@, [c |-> c, d |-> d, amt |-> amt])],
             q, m, t)

\* Container.put(amount)
ContainerPut(ct, q, m, c, d, amt, t) ==
  TriggerDeposit([ct EXCEPT ![m].putq = Append(@, [c |-> c, d |-> d, amt |-> amt])],
                 q, m, t)

\* ------------------------------------------------------------ MaterialStock
\* (mutant) the stock is not checked before the withdrawal
Enough_unchecked(m, amt) == cont[m].level >= 0

\* lines 346 and 387: container.level >= customer_needed_amount
Enough(m, amt) == cont[m].level >= amt

\* lines 346-347 (387-388): enough stock, the amount is withdrawn
MaterialGet ==
  /\ Resumes("init", "get", "start")
  /\ Enough(Material(Top(head.c).ptype), Top(head.c).amt)
  /\ LET c == head.c
         f == Top(c)
         g == ContainerGet(cont, Tail(queue), Material(f.ptype), c, Depth(c),
                           f.amt, head.time)
     IN  /\ cont' = g.cont
         /\ queue' = g.q
         /\ stack' = SetTop(stack, c,
                      [f EXCEPT !.pc = "wait_get",
                                !.lvl0 = cont[Material(f.ptype)].level])
  /\ now' = head.time
  /\ UNCHANGED <<gen, res, status, requested, granted>>

\* (mutant) on a shortage the stock that is left is withdrawn at once, before
\* the refill
MaterialLack_partial ==
  /\ Resumes("init", "get", "start")
  /\ ~Enough(Material(Top(head.c).ptype), Top(head.c).amt)
  /\ LET c == head.c
         f == Top(c)
     IN  /\ stack' = Push(SetTop(stack, c,
                            [f EXCEPT !.pc = "wait_refill",
                                      !.lvl0 = cont[Material(f.ptype)].level]),
                          c, [Frame("refill", "start") EXCEPT !.ptype = f.ptype])
         /\ cont' = [cont EXCEPT ![Material(f.ptype)].level = 0]
         /\ queue' = Schedule(Tail(queue), InitEv(head.time, c, Depth(c) + 1))
  /\ now' = head.time
  /\ UNCHANGED <<gen, res, status, requested, granted>>

\* lines 348-350 (389-391): not enough stock, the refill is started
MaterialLack ==
  /\ Resumes("init", "get", "start")
  /\ ~Enough(Material(Top(head.c).ptype), Top(head.c).amt)
  /\ LET c == head.c
         f == Top(c)
     IN  /\ stack' = Push(SetTop(stack, c,
                            [f EXCEPT !.pc = "wait_refill",
                                      !.lvl0 = cont[Material(f.ptype)].level]),
                          c, [Frame("refill", "start") EXCEPT !.ptype = f.ptype])
         /\ queue' = Schedule(Tail(queue), InitEv(head.time, c, Depth(c) + 1))
  /\ now' = head.time
  /\ UNCHANGED <<gen, res, cont, status, requested,
                 granted>>

\* (mutant) the refill is the whole capacity, the level is not subtracted
RefillAmount_full(m) == ContainerCapacity

\* (mutant) the refill assumes the container still holds its initial stock
RefillAmount_stale(m) == ContainerCapacity - ContainerInit

\* refill_amount of lines 365 and 406
RefillAmount(m) == ContainerCapacity - cont[m].level

\* env.timeout(refill_amount * 0.1), in ticks
RefillDelay(amt) == (amt * Tick) \div 10

\* lines 365-367 (406-408): the amount is computed, the delay starts
RefillStart ==
  /\ Resumes("init", "refill", "start")
  /\ LET c == head.c
         f == Top(c)
         amt == RefillAmount(Material(f.ptype))
     IN  /\ stack' = SetTop(stack, c, [f EXCEPT !.pc = "wait_delay", !.amt = amt])
         /\ queue' = Schedule(Tail(queue),
                              TimeoutEv(head.time + RefillDelay(amt), c, Depth(c)))
  /\ now' = head.time
  /\ UNCHANGED <<gen, res, cont, status, requested,
                 granted>>

\* line 368 (409): the amount computed before the delay is deposited
RefillPut ==
  /\ Resumes("timeout", "refill", "wait_delay")
  /\ LET c == head.c
         f == Top(c)
         g == ContainerPut(cont, Tail(queue), Material(f.ptype), c, Depth(c),
                           f.amt, head.time)
     IN  /\ cont' = g.cont
         /\ queue' = g.q
         /\ stack' = SetTop(stack, c, [f EXCEPT !.pc = "wait_put"])
  /\ now' = head.time
  /\ UNCHANGED <<gen, res, status, requested, granted>>

\* the deposit's event is dispatched: its callback triggers the get queue
\* and refill_plastic / refill_resin returns
RefillDone ==
  /\ Resumes("cput", "refill", "wait_put")
  /\ LET c == head.c
         g == TriggerGet(cont, Tail(queue), head.r, head.time)
     IN  /\ cont' = g.cont
         /\ queue' = Schedule(g.q, DoneEv(head.time, c, Depth(c)))
         /\ stack' = Pop(stack, c)
  /\ now' = head.time
  /\ UNCHANGED <<gen, res, status, requested, granted>>

\* line 351 (392): after the refill the amount is withdrawn
GetAfterRefill ==
  /\ Resumes("done", "get", "wait_refill")
  /\ LET c == head.c
         f == Top(c)
         g == ContainerGet(cont, Tail(queue), Material(f.ptype), c, Depth(c),
                           f.amt, head.time)
     IN  /\ cont' = g.cont
         /\ queue' = g.q
         /\ stack' = SetTop(stack, c, [f EXCEPT !.pc = "wait_get",
                                                !.refilled = TRUE])
  /\ now' = head.time
  /\ UNCHANGED <<gen, res, status, requested, granted>>

\* the withdrawal's event is dispatched: its callback triggers the put queue
\* and get_plastic / get_resin returns
GetDone ==
  /\ Resumes("cget", "get", "wait_get")
  /\ LET c == head.c
         g == TriggerDeposit(cont, Tail(queue), head.r, head.time)
     IN  /\ cont' = g.cont
         /\ queue' = Schedule(g.q, DoneEv(head.time, c, Depth(c)))
         /\ stack' = Pop(stack, c)
  /\ now' = head.time
  /\ UNCHANGED <<gen, res, status, requested, granted>>

\* --------------------------------------------------- QualityControl.inspect
\* line 445: the quality control resource is requested
InspectStart ==
  /\ Resumes("init", "inspect", "start")
  /\ LET c == head.c
         g == Request(res, Tail(queue), stack, "qc", <<c, Depth(c), 1>>, head.time)
     IN  /\ res' = g.res
         /\ queue' = g.q
         /\ stack' = SetTop(g.st, c, [TopOf(g.st, c) EXCEPT !.pc = "wait_qc"])
  /\ now' = head.time
  /\ UNCHANGED <<gen, cont, status, requested, granted>>

\* lines 446-450: the resource is granted, the inspection time starts
InspectGranted ==
  /\ Resumes("request", "inspect", "wait_qc")
  /\ LET c == head.c
     IN  /\ \E it \in InspectionTimes :
               queue' = Schedule(Tail(queue),
                                 TimeoutEv(head.time + it, c, Depth(c)))
         /\ stack' = SetTop(stack, c, [Top(c) EXCEPT !.pc = "inspecting"])
  /\ now' = head.time
  /\ UNCHANGED <<gen, res, cont, status, requested,
                 granted>>

\* (mutant) the quality control slot is released before the reprint
InspectFail_releasefirst ==
  /\ Resumes("timeout", "inspect", "inspecting")
  /\ LET c == head.c
         f == Top(c)
         g == Release(res, Tail(queue), stack, "qc", <<c, Depth(c), 1>>, head.time)
     IN  /\ res' = g.res
         /\ stack' = Push(SetTop(g.st, c, [TopOf(g.st, c) EXCEPT !.pc = "wait_child"]),
                          c, [Frame("printing", "start") EXCEPT !.ptype = f.ptype])
         /\ queue' = Schedule(g.q, InitEv(head.time, c, Depth(c) + 1))
  /\ now' = head.time
  /\ UNCHANGED <<gen, cont, status, requested, granted>>

\* (mutant) the reprint is started with the other printer type
InspectFail_othertype ==
  /\ Resumes("timeout", "inspect", "inspecting")
  /\ LET c == head.c
         f == Top(c)
     IN  /\ stack' = Push(SetTop(stack, c, [f EXCEPT !.pc = "wait_child"]),
                          c, [Frame("printing", "start") EXCEPT !.ptype = 1 - f.ptype])
         /\ queue' = Schedule(Tail(queue), InitEv(head.time, c, Depth(c) + 1))
  /\ now' = head.time
  /\ UNCHANGED <<gen, res, cont, status, requested,
                 granted>>

\* lines 452-456: the product fails, printing_process is started again with
\* the same printer_type, inside the with block
InspectFail ==
  /\ Resumes("timeout", "inspect", "inspecting")
  /\ LET c == head.c
         f == Top(c)
     IN  /\ stack' = Push(SetTop(stack, c, [f EXCEPT !.pc = "wait_child"]),
                          c, [Frame("printing", "start") EXCEPT !.ptype = f.ptype])
         /\ queue' = Schedule(Tail(queue), InitEv(head.time, c, Depth(c) + 1))
  /\ now' = head.time
  /\ UNCHANGED <<gen, res, cont, status, requested,
                 granted>>

\* lines 457-461: the product passes, packaging is started, inside the with
\* block
InspectPass ==
  /\ Resumes("timeout", "inspect", "inspecting")
  /\ LET c == head.c
         f == Top(c)
     IN  /\ stack' = Push(SetTop(stack, c, [f EXCEPT !.pc = "wait_child"]),
                          c, Frame("package", "start"))
         /\ queue' = Schedule(Tail(queue), InitEv(head.time, c, Depth(c) + 1))
  /\ now' = head.time
  /\ UNCHANGED <<gen, res, cont, status, requested,
                 granted>>

\* the reprint or the packaging has returned: the with block of line 445
\* ends, which releases the quality control slot, and inspect returns
InspectFinish ==
  /\ Resumes("done", "inspect", "wait_child")
  /\ LET c == head.c
         d == Depth(c)
         g == Release(res, Tail(queue), stack, "qc", <<c, d, 1>>, head.time)
     IN  /\ res' = g.res
         /\ queue' = Schedule(g.q, DoneEv(head.time, c, d))
         /\ stack' = Pop(g.st, c)
  /\ now' = head.time
  /\ UNCHANGED <<gen, cont, status, requested, granted>>

\* --------------------------------------------------- PackagingStation.package
\* line 488: the packaging resource is requested
PackageStart ==
  /\ Resumes("init", "package", "start")
  /\ LET c == head.c
         g == Request(res, Tail(queue), stack, "packaging", <<c, Depth(c), 1>>,
                      head.time)
     IN  /\ res' = g.res
         /\ queue' = g.q
         /\ stack' = SetTop(g.st, c, [TopOf(g.st, c) EXCEPT !.pc = "wait_pack"])
  /\ now' = head.time
  /\ UNCHANGED <<gen, cont, status, requested, granted>>

\* lines 489-493: the resource is granted, the packaging time starts
PackageGranted ==
  /\ Resumes("request", "package", "wait_pack")
  /\ LET c == head.c
     IN  /\ \E pt \in PackTimes :
               queue' = Schedule(Tail(queue),
                                 TimeoutEv(head.time + pt, c, Depth(c)))
         /\ stack' = SetTop(stack, c, [Top(c) EXCEPT !.pc = "packing"])
  /\ now' = head.time
  /\ UNCHANGED <<gen, res, cont, status, requested,
                 granted>>

\* lines 494-495: packaging is complete, the with block ends (release) and
\* package returns
PackageDone ==
  /\ Resumes("timeout", "package", "packing")
  /\ LET c == head.c
         d == Depth(c)
         g == Release(res, Tail(queue), stack, "packaging", <<c, d, 1>>, head.time)
     IN  /\ res' = g.res
         /\ queue' = Schedule(g.q, DoneEv(head.time, c, d))
         /\ stack' = Pop(g.st, c)
  /\ now' = head.time
  /\ UNCHANGED <<gen, cont, status, requested, granted>>

\* ---------------------------------------------------------------- env.run()
Next ==
  \/ GenerateCustomer
  \/ GeneratorEnd
  \/ ProcessEnd
  \/ ReleaseProcessed
  \/ ReceptArrive
  \/ ReceptLeave
  \/ ReceptServe
  \/ ReceptServed
  \/ ReceptFinish
  \/ BlueprintStart
  \/ BlueprintGranted
  \/ BlueprintDone
  \/ FrameReturn
  \/ PrintingStart
  \/ UnitGranted
  \/ RaceResolved
  \/ PrintingRelease
  \/ PrintStart
  \/ PrintAfterGet
  \/ PrintFinished
  \/ MaterialGet
  \/ MaterialLack
  \/ RefillStart
  \/ RefillPut
  \/ RefillDone
  \/ GetAfterRefill
  \/ GetDone
  \/ InspectStart
  \/ InspectGranted
  \/ InspectFail
  \/ InspectPass
  \/ InspectFinish
  \/ PackageStart
  \/ PackageGranted
  \/ PackageDone

Spec == Init /\ [][Next]_vars

\* ================================================================== claims
\* the frames of customer c
FrameIdx(c) == 1 .. Len(stack[c])

\* customer c is in the Printing stage: a printing_process of c has not yet
\* released its unit (line 158)
InPrinting(c) ==
  \E i \in FrameIdx(c) :
    stack[c][i].fn = "printing" /\ stack[c][i].pc \in {"start", "race", "wait_print"}

\* the frame f holds its request k
HeldK(f, k) == IF k = 1 THEN f.h1 ELSE f.h2

\* s is a prefix of t
IsPrefix(s, t) == Len(s) <= Len(t) /\ \A i \in 1 .. Len(s) : s[i] = t[i]

\* no event is left: env.run() returns
Terminated == queue = <<>>

\* C1: once the race of printing_process has resolved and the job proceeds to
\* print, the job holds exactly one of the two units of its type: the selected
\* one; its request on the other unit is neither a user of that unit nor in
\* its queue.
C1_RaceExclusive ==
  \A c \in Customers : \A i \in FrameIdx(c) :
    LET f == stack[c][i]
    IN  (f.fn = "printing" /\ f.pc = "wait_print") =>
          /\ HeldK(f, f.sel)
          /\ ~HeldK(f, 3 - f.sel)
          /\ \A j \in 1 .. Len(res[Unit(f.ptype, 3 - f.sel)].queue) :
                res[Unit(f.ptype, 3 - f.sel)].queue[j] # <<c, i, 3 - f.sel>>

\* C2: the run never ends (empty event queue) while a job is not in a
\* terminal state: when no event is left, every customer is done or abandoned.
C2_NoJobLost ==
  Terminated => \A c \in Customers : status[c] \in {"done", "abandoned"}

\* C3: a printer unit is in use only while a job in the Printing stage holds
\* it; when no job is in the Printing stage, the four units are free.
C3_NoPrinterLeak ==
  /\ \A r \in Printers :
       res[r].inUse >= 1 =>
         \E c \in Customers : \E i \in FrameIdx(c) : \E k \in {1, 2} :
           /\ stack[c][i].fn = "printing"
           /\ stack[c][i].pc \in {"race", "wait_print"}
           /\ Unit(stack[c][i].ptype, k) = r
           /\ HeldK(stack[c][i], k)
  /\ (\A c \in Customers : ~InPrinting(c)) => \A r \in Printers : res[r].inUse = 0

\* C4: a job becomes served only while it holds the reception desk and only
\* with a wait of at most 500 time units; a job that leaves the queue with a
\* longer wait becomes abandoned; abandoned is terminal (the job has no frame
\* and stays abandoned); only a served job is in service or in a later stage.
C4_ReceptionOutcome ==
  [][\A c \in Customers :
       /\ (status[c] # "served" /\ status'[c] = "served") =>
            /\ status[c] = "queued"
            /\ stack[c][1].h1
            /\ res["reception"].inUse = 1
            /\ now' - stack[c][1].arr <= 500 * Tick
       /\ (status[c] = "queued" /\ status'[c] # "queued"
             /\ now' - stack[c][1].arr > 500 * Tick) =>
            status'[c] = "abandoned"
       /\ (status[c] # "abandoned" /\ status'[c] = "abandoned") =>
            status[c] = "queued" /\ stack[c][1].h1
       /\ status[c] = "abandoned" => status'[c] = "abandoned"
       /\ status'[c] = "abandoned" => stack'[c] = <<>>
       /\ (Len(stack'[c]) >= 2
             \/ (Len(stack'[c]) = 1 /\ stack'[c][1].pc \in {"service", "wait_child"}))
            => status'[c] = "served"
    ]_vars

\* C4 witness: a customer has been abandoned after others were served
C4_Witness ==
  \E c, c2 \in Customers : status[c] = "abandoned" /\ status[c2] = "done"

\* C5: a capacity resource grants in arrival order: a grant while requests
\* wait takes the oldest of them and keeps the order of the others; the
\* reception grants are a prefix of the reception requests.
C5_FifoFairness ==
  [][/\ \A r \in Resources :
          (res'[r].inUse > res[r].inUse /\ res[r].queue # <<>>) =>
            /\ Len(res'[r].queue) >= Len(res[r].queue) - 1
            /\ \A i \in 1 .. (Len(res[r].queue) - 1) :
                  res'[r].queue[i] = res[r].queue[i + 1]
            /\ \A i \in 1 .. Len(res'[r].queue) :
                  res'[r].queue[i] # Head(res[r].queue)
     /\ IsPrefix(granted', requested')
    ]_vars

\* C5 witness: the desk has been granted to a second customer while others
\* still wait
C5_Witness ==
  Len(granted) >= 2 /\ Len(res["reception"].queue) >= 2

\* C6: 0 <= inUse <= capacity, the capacity being 1 for the reception desk and
\* each printer unit and 2 for blueprint, quality control and packaging.
C6_CapacityInvariant ==
  /\ res["reception"].inUse \in 0 .. 1
  /\ \A r \in Printers : res[r].inUse \in 0 .. 1
  /\ \A r \in {"blueprint", "qc", "packaging"} : res[r].inUse \in 0 .. 2

\* C6 witness: the desk is full with customers waiting, and both quality
\* control slots are taken
C6_Witness ==
  /\ res["reception"].inUse = 1 /\ res["reception"].queue # <<>>
  /\ res["qc"].inUse = 2

\* C7: each container's level stays within 0 .. capacity.
C7_ContainerBounds ==
  \A m \in Containers : cont[m].level >= 0 /\ cont[m].level <= ContainerCapacity

\* C7 witness: a container is full (after a refill) while the other has been
\* drawn from
C7_Witness ==
  \E m, m2 \in Containers :
    cont[m].level = ContainerCapacity /\ cont[m2].level < ContainerInit

\* C8: a withdrawal of A from a level below A is preceded by a refill to
\* exactly the capacity and leaves capacity - A; a withdrawal from a level of
\* at least A triggers no refill and leaves level - A.
C8_RefillThenWithdraw ==
  \A c \in Customers : \A i \in FrameIdx(c) :
    LET f == stack[c][i]
        m == Material(f.ptype)
    IN  /\ (f.fn = "get" /\ f.pc = "wait_refill") => f.lvl0 < f.amt
        /\ (f.fn = "get" /\ f.pc = "wait_refill" /\ i = Len(stack[c])) =>
              cont[m].level = ContainerCapacity
        /\ (f.fn = "refill" /\ f.pc = "wait_put") =>
              cont[m].level = ContainerCapacity
        /\ (f.fn = "get" /\ f.pc = "wait_get") =>
              /\ cont[m].getq = <<>>
              /\ IF f.refilled
                 THEN f.lvl0 < f.amt /\ cont[m].level = ContainerCapacity - f.amt
                 ELSE f.lvl0 >= f.amt /\ cont[m].level = f.lvl0 - f.amt

\* C8 witness: a withdrawal has completed after a refill
C8_Witness ==
  \E c \in Customers : \E i \in FrameIdx(c) :
    /\ stack[c][i].fn = "get" /\ stack[c][i].pc = "wait_get"
    /\ stack[c][i].refilled
    /\ cont[Material(stack[c][i].ptype)].level = ContainerCapacity - stack[c][i].amt

\* C9: throughout the refill delay, up to the deposit, the amount computed
\* before the delay equals capacity minus the current level, and no deposit
\* is ever left pending.
C9_RefillExact ==
  /\ \A c \in Customers : \A i \in FrameIdx(c) :
       (stack[c][i].fn = "refill" /\ stack[c][i].pc = "wait_delay") =>
         stack[c][i].amt =
           ContainerCapacity - cont[Material(stack[c][i].ptype)].level
  /\ \A m \in Containers : cont[m].putq = <<>>

\* C9 witness: a refill delay is running for a positive amount
C9_Witness ==
  \E c \in Customers : \E i \in FrameIdx(c) :
    /\ stack[c][i].fn = "refill" /\ stack[c][i].pc = "wait_delay"
    /\ stack[c][i].amt > 0
    /\ now > 0

\* C10: a step lowers a container's level only by the whole amount of the
\* withdrawal it serves, the one of the get_plastic / get_resin that the
\* step runs.
C10_WithdrawalAtomic ==
  [][\A m \in Containers :
       cont'[m].level < cont[m].level =>
         /\ queue # <<>> /\ head.c \in Customers /\ Depth(head.c) >= 1
         /\ Top(head.c).fn = "get"
         /\ Material(Top(head.c).ptype) = m
         /\ cont[m].level - cont'[m].level = Top(head.c).amt
    ]_vars

\* C10 witness: a withdrawal has been granted at once, without a refill
C10_Witness ==
  \E c \in Customers : \E i \in FrameIdx(c) :
    /\ stack[c][i].fn = "get" /\ stack[c][i].pc = "wait_get"
    /\ ~stack[c][i].refilled
    /\ cont[Material(stack[c][i].ptype)].level = stack[c][i].lvl0 - stack[c][i].amt

\* the frames of c that carry the job's printer type
Typed(c) ==
  {i \in FrameIdx(c) :
     stack[c][i].fn \in {"printing", "print", "get", "refill", "inspect"}}

\* the printing_process frames of c, outermost first
PrintingFrames(c) == {i \in FrameIdx(c) : stack[c][i].fn = "printing"}

\* C11: a job that fails inspection re-enters Printing with the machine type
\* of its first print, for any number of failures: every printing, print,
\* material and inspection frame of a job carries the type of the job's first
\* printing_process, and that type does not change while the job is in flight.
C11_SameMachineType ==
  [][\A c \in Customers :
       /\ \A i, j \in {k \in 1 .. Len(stack'[c]) :
                         stack'[c][k].fn \in {"printing", "print", "get",
                                              "refill", "inspect"}} :
             stack'[c][i].ptype = stack'[c][j].ptype
       /\ \A i \in PrintingFrames(c) :
             (i <= Len(stack'[c]) /\ stack'[c][i].fn = "printing") =>
               stack'[c][i].ptype = stack[c][i].ptype
    ]_vars

\* C11 witness: an SLA job is in its third printing_process, after
\* two failed inspections
C11_Witness ==
  \E c \in Customers :
    /\ Cardinality(PrintingFrames(c)) >= 3
    /\ \A i \in Typed(c) : stack[c][i].ptype = 1
    /\ \E i \in Typed(c) : stack[c][i].fn = "print"

\* C12: a job that entered Printing with unit 1 free and unit 2 busy (its
\* request on unit 1 granted, the one on unit 2 waiting) resolves the race to
\* unit 1 without the clock advancing, and when it starts to print its request
\* on unit 2 is no longer in unit 2's wait queue, nor a user of unit 2.
C12_RaceOneFree ==
  [][\A c \in Customers : \A d \in PrintingFrames(c) :
       LET f == stack[c][d]
           u2 == Unit(f.ptype, 2)
       IN  (f.pc = "race" /\ f.h1 /\ ~f.h2) =>
             /\ now' = now
             /\ d <= Len(stack'[c])
             /\ stack'[c][d].pc \in {"race", "wait_print"}
             /\ stack'[c][d].pc = "race" =>
                   \E j \in 1 .. Len(res'[u2].queue) : res'[u2].queue[j] = <<c, d, 2>>
             /\ stack'[c][d].pc = "wait_print" =>
                   /\ stack'[c][d].sel = 1
                   /\ stack'[c][d].h1 /\ ~stack'[c][d].h2
                   /\ \A j \in 1 .. Len(res'[u2].queue) :
                         res'[u2].queue[j] # <<c, d, 2>>
                   /\ Len(stack'[c]) = d + 1
                   /\ stack'[c][d + 1].fn = "print"
                   /\ stack'[c][d + 1].pc = "start"
    ]_vars

\* C12 witness: a job prints on unit 1 while unit 2 is busy and has no waiter
C12_Witness ==
  \E c \in Customers : \E d \in PrintingFrames(c) :
    LET f == stack[c][d]
    IN  /\ f.pc = "wait_print" /\ f.sel = 1 /\ f.h1 /\ ~f.h2
        /\ res[Unit(f.ptype, 2)].inUse = 1
        /\ res[Unit(f.ptype, 2)].queue = <<>>
        /\ Len(stack[c]) > d /\ stack[c][d + 1].pc = "printing"

\* C13: when both units are granted to the job at the instant it enters the
\* race, the job prints on unit 1, the one whose request was made first.
C13_RaceTieBreak ==
  [][\A c \in Customers : \A d \in PrintingFrames(c) :
       LET f == stack[c][d]
       IN  (f.pc = "race" /\ f.h1 /\ f.h2 /\ d <= Len(stack'[c])
              /\ stack'[c][d].pc = "wait_print") =>
             /\ now' = now
             /\ stack'[c][d].sel = 1
             /\ Len(stack'[c]) = d + 1
             /\ stack'[c][d + 1].fn = "print"
             /\ stack'[c][d + 1].sel = 1
    ]_vars

\* C13 witness: a job that was granted both units prints on unit 1
C13_Witness ==
  \E c \in Customers : \E d \in PrintingFrames(c) :
    LET f == stack[c][d]
    IN  /\ f.pc = "wait_print" /\ f.h1 /\ f.h2 /\ f.sel = 1
        /\ Len(stack[c]) > d /\ stack[c][d + 1].pc = "printing"
        /\ stack[c][d + 1].sel = 1

\* customer c waits for the reception desk: its request has not been granted
WaitsForDesk(c) == status[c] = "queued" /\ ~stack[c][1].h1

\* C14: a job waiting for the reception desk stays queued, in the desk's wait
\* queue, until the desk is granted to it, however long it waits; a job
\* becomes abandoned only in the step that dispatches its own grant, the wait
\* being measured at the time of the grant.
C14_NotPreemptive ==
  [][\A c \in Customers :
       /\ WaitsForDesk(c) =>
             /\ \E j \in 1 .. Len(res["reception"].queue) :
                   res["reception"].queue[j] = <<c, 1, 1>>
             /\ status'[c] = "queued"
             /\ Len(stack'[c]) = 1 /\ stack'[c][1].pc = "wait_desk"
             /\ \/ stack'[c][1].h1
                \/ \E j \in 1 .. Len(res'["reception"].queue) :
                     res'["reception"].queue[j] = <<c, 1, 1>>
       /\ (status[c] # "abandoned" /\ status'[c] = "abandoned") =>
             /\ ~WaitsForDesk(c)
             /\ head.kind = "request" /\ head.c = c /\ head.r = "reception"
             /\ now' = head.time
             /\ now' - stack[c][1].arr > 500 * Tick
    ]_vars

\* C14 witness: a job is still in the desk's wait queue after more than 500
\* time units
C14_Witness ==
  \E c \in Customers :
    /\ WaitsForDesk(c)
    /\ now - stack[c][1].arr > 500 * Tick
    /\ \E j \in 1 .. Len(res["reception"].queue) :
          res["reception"].queue[j] = <<c, 1, 1>>

\* the frame that the step pushes on the stack of c, if it pushes one
Pushed(c, fn) ==
  /\ Len(stack'[c]) = Len(stack[c]) + 1
  /\ stack'[c][Len(stack'[c])].fn = fn

\* C15: a job enters Blueprint iff it arrived without a design, and only when
\* its reception service time has elapsed; a finished blueprint is followed at
\* once by Printing; a job with a design goes from the service to Printing;
\* Inspection is entered only when print() has returned to a printing_process
\* (and print() returns only when its print time has elapsed), Packaging only
\* from an inspection whose time has elapsed and that passed.
C15_StageOrder ==
  [][\A c \in Customers :
       LET st == stack[c]
           st1 == stack'[c]
           n == Len(st)
       IN  /\ Len(st1) >= 2 =>
                 /\ st1[1].fn = "recept" /\ st1[1].pc = "wait_child"
                 /\ status'[c] = "served"
                 /\ st1[2].fn = (IF st1[1].hb = 0 THEN "blueprint" ELSE "printing")
           /\ \A i \in 1 .. Len(st1) :
                 /\ st1[i].fn = "blueprint" =>
                       /\ i = 2 /\ st1[1].hb = 0
                       /\ Len(st1) > 2 =>
                             st1[2].pc = "wait_child" /\ st1[3].fn = "printing"
                 /\ st1[i].fn = "inspect" =>
                       /\ i > 2
                       /\ st1[i - 1].fn = "printing"
                       /\ st1[i - 1].pc = "wait_inspect"
                 /\ st1[i].fn = "package" =>
                       /\ i > 3
                       /\ st1[i - 1].fn = "inspect"
                       /\ st1[i - 1].pc = "wait_child"
           /\ (n = 1 /\ Len(st1) = 2) =>
                 /\ st[1].pc = "service"
                 /\ head.kind = "timeout" /\ head.c = c /\ head.d = 1
                 /\ st1[2].pc = "start"
           /\ (n = 2 /\ st[2].fn = "blueprint" /\ st[2].pc = "work"
                 /\ st1 # st) =>
                 /\ Len(st1) = 3
                 /\ st1[3].fn = "printing" /\ st1[3].pc = "start"
           /\ Pushed(c, "inspect") =>
                 /\ st[n].fn = "printing" /\ st[n].pc = "wait_print"
                 /\ head.kind = "done" /\ head.c = c /\ head.d = n + 1
           /\ (Len(st1) < n /\ st[n].fn = "print") =>
                 /\ st[n].pc = "printing"
                 /\ head.kind = "timeout" /\ head.c = c /\ head.d = n
                 /\ head.time = now'
           /\ Pushed(c, "package") =>
                 /\ st[n].fn = "inspect" /\ st[n].pc = "inspecting"
                 /\ head.kind = "timeout" /\ head.c = c /\ head.d = n
    ]_vars

\* C15 witness: a job without a design is being packaged, having gone through
\* Blueprint, Printing and Inspection
C15_Witness ==
  \E c \in Customers :
    /\ Len(stack[c]) = 5
    /\ stack[c][1].hb = 0
    /\ stack[c][2].fn = "blueprint"
    /\ stack[c][3].fn = "printing"
    /\ stack[c][4].fn = "inspect"
    /\ stack[c][5].fn = "package" /\ stack[c][5].pc = "packing"

\* the events of a sequence of events
EventsOf(q) == {q[j] : j \in 1 .. Len(q)}

\* C16: a container's level changes only in a step of the get_plastic /
\* get_resin (or its refill) of a print that has not yet started its timed
\* print, on a unit the job holds; the container is plastic for an FDM unit
\* and resin for an SLA unit, and the other container's level is unchanged;
\* the timed print starts only when the withdrawal process has returned, and
\* that process returns only when its withdrawal has been made in full.
C16_MaterialMatches ==
  [][/\ \A m \in Containers :
          cont'[m].level # cont[m].level =>
            /\ head.c \in Customers
            /\ Top(head.c).fn \in {"get", "refill"}
            /\ \A m2 \in Containers \ {m} : cont'[m2].level = cont[m2].level
            /\ \E i \in 2 .. (Depth(head.c) - 1) :
                  LET p == stack[head.c][i]
                      r == Unit(p.ptype, p.sel)
                  IN  /\ p.fn = "print" /\ p.pc = "wait_get"
                      /\ stack[head.c][i - 1].fn = "printing"
                      /\ stack[head.c][i - 1].sel = p.sel
                      /\ HeldK(stack[head.c][i - 1], p.sel)
                      /\ r \in {"fdm1", "fdm2"} => m = "plastic"
                      /\ r \in {"sla1", "sla2"} => m = "resin"
     /\ \A c \in Customers : \A i \in FrameIdx(c) :
          LET p == stack[c][i]
              m == IF p.ptype = 0 THEN "plastic" ELSE "resin"
          IN  /\ (p.fn = "print" /\ p.pc \in {"start", "wait_get"}) =>
                    \A e \in EventsOf(queue) :
                      ~(e.kind = "timeout" /\ e.c = c /\ e.d = i)
              /\ (p.fn = "print" /\ p.pc = "wait_get" /\ i <= Len(stack'[c])
                     /\ stack'[c][i].pc = "printing") =>
                    /\ Len(stack[c]) = i
                    /\ head.kind = "done" /\ head.c = c /\ head.d = i + 1
                    /\ cont' = cont
                    /\ cont[m].getq = <<>> /\ cont[m].putq = <<>>
              /\ (p.fn = "get" /\ Len(stack'[c]) < i) =>
                    /\ p.pc = "wait_get"
                    /\ head.kind = "cget" /\ head.c = c /\ head.r = m
              /\ (p.fn = "get" /\ p.pc # "wait_get" /\ i <= Len(stack'[c])
                     /\ stack'[c][i].pc = "wait_get") =>
                    /\ cont'[m].level = cont[m].level - p.amt
                    /\ p.amt = stack[c][i - 1].amt
    ]_vars

\* C16 witness: an SLA print is in its timed print, its resin withdrawn, after
\* an FDM print has drawn plastic
C16_Witness ==
  \E c \in Customers : \E i \in FrameIdx(c) :
    /\ stack[c][i].fn = "print" /\ stack[c][i].pc = "printing"
    /\ stack[c][i].ptype = 1
    /\ cont["resin"].level = ContainerInit - stack[c][i].amt
    /\ cont["plastic"].level < ContainerInit

\* C17: every step dispatches the head event and sets the clock to its time,
\* which is never before the clock's value; no event left in the queue is due
\* before the clock, so the time of successive dispatches never decreases and
\* the clock moves only at a dispatch.
C17_ClockMonotonic ==
  [][/\ queue # <<>>
     /\ now' = head.time
     /\ now' >= now
     /\ \A e \in EventsOf(queue') : e.time >= now'
     /\ \A i, j \in 1 .. Len(queue') : i < j => queue'[i].time <= queue'[j].time
    ]_vars

\* C17 witness: the clock has advanced and the next dispatch advances it
\* again, with later events behind
C17_Witness ==
  /\ now > 0
  /\ Len(queue) >= 2
  /\ head.time > now
  /\ queue[Len(queue)].time > head.time

\* the events that the step has scheduled
NewEvents == EventsOf(queue') \ EventsOf(Tail(queue))

\* of two events that one step schedules, e is scheduled before f: the
\* release of a with block or of line 158 before the process started or ended
\* after it (lines 93-95, 158-160, 55-71, 445-461, 488-495), the request of
\* unit 1 before the request of unit 2 (lines 126-127), the customer's process
\* before the generator's timeout (lines 22-23), a container's grant before
\* the end of the process that was waiting for the container
ScheduledBefore(e, f) ==
  \/ e.kind = "release" /\ f.kind \in {"init", "done"}
  \/ e.kind = "request" /\ f.kind = "request" /\ e.c = f.c /\ e.k < f.k
  \/ e.kind = "init" /\ f.kind = "timeout" /\ f.c = Gen
  \/ e.kind \in {"cget", "cput"} /\ f.kind = "done"

InInspectionOrPackaging(c) ==
  stack[c] # <<>> /\ Top(c).fn \in {"inspect", "package"}

\* C19: while print() and its material processes run, the printing_process
\* that started them holds the selected unit; once it has gone on to the
\* inspection it no longer holds it (the release comes before inspect is
\* started, hence before the quality control request); no request of a job
\* in Inspection or Packaging holds a unit the job printed on.
C19_PrinterHold ==
  \A c \in Customers :
    /\ \A d \in FrameIdx(c) :
         LET f == stack[c][d]
         IN  /\ (f.fn = "printing" /\ f.pc = "wait_print") =>
                   /\ HeldK(f, f.sel)
                   /\ res[Unit(f.ptype, f.sel)].inUse = 1
             /\ (f.fn = "printing" /\ f.pc = "wait_inspect") => ~HeldK(f, f.sel)
             /\ f.fn = "print" =>
                   /\ stack[c][d - 1].fn = "printing"
                   /\ stack[c][d - 1].pc = "wait_print"
                   /\ stack[c][d - 1].sel = f.sel
             /\ f.fn \in {"get", "refill"} =>
                   \E i \in 1 .. (d - 1) :
                     /\ stack[c][i].fn = "print"
                     /\ stack[c][i].pc = "wait_get"
             /\ f.fn = "inspect" =>
                   /\ stack[c][d - 1].fn = "printing"
                   /\ stack[c][d - 1].pc = "wait_inspect"
                   /\ ~HeldK(stack[c][d - 1], stack[c][d - 1].sel)
    /\ InInspectionOrPackaging(c) =>
         \A d, e \in PrintingFrames(c) :
           ~HeldK(stack[c][e], stack[c][d].sel)

\* C19 witness: a job is being packaged, its printer free again, after a
\* print that went through a refill with the unit held
C19_Witness ==
  \E c \in Customers : \E d \in PrintingFrames(c) :
    /\ Top(c).fn = "package" /\ Top(c).pc = "packing"
    /\ res[Unit(stack[c][d].ptype, stack[c][d].sel)].inUse = 0
    /\ cont[Material(stack[c][d].ptype)].level =
         ContainerCapacity - (CHOOSE a \in NeededAmounts : TRUE)

\* customer c has been created: its process exists or has existed
Created(c) == stack[c] # <<>> \/ status[c] # "none"

\* C20: jobs are created by the generator only, one per loop iteration, with
\* the identifiers 0, 1, ... in this order, each once, and none once
\* TOTAL_CUSTOMERS have been created; jobs arrive in the order of their
\* identifiers, a later job no earlier than the one before it; when the run
\* ends exactly TOTAL_CUSTOMERS jobs have been created and have arrived.
C20_CustomerGeneration ==
  [][/\ gen' \in {gen, gen + 1} /\ gen' <= TOTAL_CUSTOMERS
     /\ \A c \in Customers :
          /\ (~Created(c) /\ stack'[c] # <<>>) =>
                /\ c = gen /\ gen' = gen + 1
                /\ head.c = Gen
                /\ \A c2 \in Customers \ {c} : stack'[c2] = stack[c2]
                /\ InitEv(now', c, 1) \in EventsOf(queue')
          /\ (Created(c) /\ status[c] # "none") =>
                ~(stack[c] = <<>> /\ stack'[c] # <<>>)
          /\ (stack'[c] # <<>> \/ status'[c] # "none") <=> c < gen'
     /\ gen' = gen + 1 => stack[gen] = <<>> /\ stack'[gen] # <<>>
     /\ requested' = [i \in 1 .. Len(requested') |-> i - 1]
     /\ \A c, c2 \in Customers :
          (c < c2 /\ stack'[c] # <<>> /\ stack'[c2] # <<>>
             /\ stack'[c2][1].pc # "start") =>
            /\ stack'[c][1].pc # "start"
            /\ stack'[c][1].arr <= stack'[c2][1].arr
     /\ queue' = <<>> =>
          gen' = TOTAL_CUSTOMERS /\ Len(requested') = TOTAL_CUSTOMERS
    ]_vars

\* C20 witness: the run has ended after the generator created its last job
C20_Witness ==
  /\ Terminated
  /\ gen = TOTAL_CUSTOMERS
  /\ Len(requested) = TOTAL_CUSTOMERS
  /\ \A c \in Customers : Created(c)

\* customer c is in reception service or in a later stage
InService(c) ==
  /\ stack[c] # <<>>
  /\ Len(stack[c]) >= 2 \/ stack[c][1].pc \in {"service", "wait_child"}

\* C21: at most one job is in reception service or a later stage, and it is
\* the one that was granted the desk last and still holds it; every job that
\* was granted the desk before it has finished its whole chain (done) or has
\* been abandoned, and has no process left.
C21_PipelineSerial ==
  /\ Cardinality({c \in Customers : InService(c)}) <= 1
  /\ \A c \in Customers :
       InService(c) =>
         /\ status[c] = "served"
         /\ stack[c][1].h1
         /\ res["reception"].inUse = 1
         /\ granted # <<>> /\ granted[Len(granted)] = c
  /\ \A j \in 1 .. (Len(granted) - 1) :
       /\ status[granted[j]] \in {"done", "abandoned"}
       /\ stack[granted[j]] = <<>>

\* C21 witness: the third job granted the desk is in Packaging, the two before
\* it are done and others wait for the desk
C21_Witness ==
  /\ Len(granted) >= 3
  /\ status[granted[1]] = "done"
  /\ InService(granted[Len(granted)])
  /\ Top(granted[Len(granted)]).fn = "package"
  /\ res["reception"].queue # <<>>

\* the inspect frames of c
InspectFrames(c) == {i \in FrameIdx(c) : stack[c][i].fn = "inspect"}

\* the inspections whose request is among the users of the quality control
\* resource
QcHolders ==
  UNION {{<<c, i>> : i \in {k \in InspectFrames(c) : stack[c][k].h1}} :
           c \in Customers}

\* C22: an inspection keeps its quality control slot from its grant until
\* inspect returns, that is while its packaging or its whole reprint chain
\* runs: the slots in use are those of the inspections on the jobs' stacks;
\* a job that reprints after k failures holds k slots, and its next inspection
\* asks for one more (and waits for it when the k slots are all there are);
\* a slot is in use throughout Packaging.
C22_QcSlotsAccumulate ==
  /\ res["qc"].inUse = Cardinality(QcHolders)
  /\ \A c \in Customers : \A i \in FrameIdx(c) :
       LET f == stack[c][i]
           below == {j \in InspectFrames(c) : j < i}
       IN  /\ (f.fn = "inspect" /\ f.pc \in {"inspecting", "wait_child"}) => f.h1
           /\ f.fn = "package" =>
                 /\ stack[c][i - 1].fn = "inspect" /\ stack[c][i - 1].h1
                 /\ res["qc"].inUse >= 1
           /\ f.fn \in {"printing", "inspect"} =>
                 /\ \A j \in below : stack[c][j].h1 /\ stack[c][j].pc = "wait_child"
                 /\ res["qc"].inUse >= Cardinality(below)
                 /\ Cardinality(below) =
                      Cardinality({j \in PrintingFrames(c) : j < i})
                        - (IF f.fn = "printing" THEN 0 ELSE 1)
           /\ (f.fn = "inspect" /\ f.pc = "wait_qc" /\ ~f.h1) =>
                 /\ Cardinality(below) = Capacity("qc")
                 /\ \E j \in 1 .. Len(res["qc"].queue) :
                       res["qc"].queue[j] = <<c, i, 1>>

\* C22 witness: a job that failed two inspections holds both slots and its
\* third inspection waits for a slot
C22_Witness ==
  \E c \in Customers :
    /\ Cardinality(InspectFrames(c)) = 3
    /\ Top(c).fn = "inspect" /\ Top(c).pc = "wait_qc" /\ ~Top(c).h1
    /\ res["qc"].inUse = 2
    /\ res["qc"].queue = <<<<c, Depth(c), 1>>>>

\* C23: unit 1 of the job's type is free, with nobody waiting, when a job
\* enters the race, so its request on unit 1 is granted at once; the race
\* always selects unit 1 and every print() runs on unit 1: the branch of
\* lines 134-137 (148-151) is never taken.
C23_UnitTwoNeverSelected ==
  \A c \in Customers : \A i \in FrameIdx(c) :
    LET f == stack[c][i]
    IN  /\ (f.fn = "printing" /\ f.pc = "start") =>
              /\ res[Unit(f.ptype, 1)].inUse = 0
              /\ res[Unit(f.ptype, 1)].queue = <<>>
        /\ (f.fn = "printing" /\ f.pc = "race") => f.h1 /\ f.sel = 0
        /\ (f.fn = "printing" /\ f.pc \in {"wait_print", "wait_inspect"}) =>
              f.sel = 1
        /\ f.fn = "print" => f.sel = 1

\* C23 witness: a job that failed an inspection races again: unit 1 is
\* granted to it at once and unit 2 is busy
C23_Witness ==
  \E c \in Customers :
    /\ Cardinality(PrintingFrames(c)) >= 2
    /\ Top(c).fn = "printing" /\ Top(c).pc = "race"
    /\ Top(c).h1 /\ ~Top(c).h2
    /\ res[Unit(Top(c).ptype, 2)].inUse = 1
    /\ \E c2 \in Customers : status[c2] = "done"

\* C24: no withdrawal and no deposit is ever left waiting: the get queue and
\* the put queue of both containers are empty in every state, each request
\* being satisfied in the step that issues it.
C24_ContainerNeverBlocks ==
  \A m \in Containers : cont[m].getq = <<>> /\ cont[m].putq = <<>>

\* C24 witness: a refill deposit has just been satisfied (the container is
\* full and the refill waits for the deposit's event) after withdrawals that
\* were satisfied at once
C24_Witness ==
  \E c \in Customers :
    /\ stack[c] # <<>>
    /\ Top(c).fn = "refill" /\ Top(c).pc = "wait_put"
    /\ cont[Material(Top(c).ptype)].level = ContainerCapacity
    /\ Top(c).amt > ContainerCapacity - ContainerInit
    /\ \E e \in EventsOf(queue) : e.kind = "cput" /\ e.c = c

====
